---- MODULE Spec2Model ----
(***************************************************************************)
(* Model of the delta synchronization engine of CountyDataSync             *)
(* (src/etl/delta_sync.py, class DeltaSync).                               *)
(*                                                                         *)
(* A snapshot is the DataFrame df handed to run_delta_sync: a sequence of  *)
(* rows, each with a parcel_id, its scalar attributes (abstracted to one   *)
(* value attr) and a geometry.  gdf and stats_df are the same records,     *)
(* with and without the geometry column, so parcel_stats has a parcel_id   *)
(* column.  Whether df also has the columns id, use_code, acres and        *)
(* assessed_value, which prepare_stats_data selects, is left open          *)
(* (statsCols).  The working database holds the tables record_hashes and   *)
(* sync_metadata, both as lists of rows in rowid order; the GeoPackage and *)
(* the stats database are files that hold one table, a list of rows.  The  *)
(* steps of a run are the calls run_delta_sync makes, one action each; the *)
(* clock may advance and the process may be killed between and inside      *)
(* them, and a connection a failed run left open may be closed at any      *)
(* time.                                                                   *)
(***************************************************************************)
EXTENDS Integers, Sequences, FiniteSets, TLC

\* ---------------------------------------------------------------- bounds
MaxLen == 2
MaxRuns == 2
MaxFaults == 1
MaxClock == 1

\* ------------------------------------------------------------------ data
\* the parcel identifiers A, B, C; two versions of a record's scalar
\* attributes; two versions of its geometry
Ids == {1, 2, 3}
Attrs == {1, 2}
Geoms == {1, 2}

\* a parcel_id cell that is None / NaN
Null == 0
\* the text that str() makes of a null parcel_id
NoneKey == -1

Records == [parcel_id : Ids, attr : Attrs, geometry : {1}]
AnyRecords == [parcel_id : Ids \cup {Null}, attr : Attrs, geometry : {1}]
GeomRecords == [parcel_id : {1, 2}, attr : Attrs, geometry : Geoms]

\* scalar attributes that cannot be encoded (a text value with a lone
\* surrogate): record_str.encode() raises UnicodeEncodeError
Malformed == 3
BadRecords == [parcel_id : Ids, attr : Attrs \cup {Malformed}, geometry : {1}]

\* str(row['parcel_id']): identifiers are text already, a null cell
\* becomes the text 'None'
Str(v) == IF v = Null THEN NoneKey ELSE v

\* snapshots with unique non-null identifiers, rows in ascending order
WellFormedSnapshots ==
  { s \in UNION { [1..n -> Records] : n \in 0..MaxLen } :
      \A i \in 1..Len(s) : \A j \in 1..Len(s) :
          i < j => s[i].parcel_id < s[j].parcel_id }

\* snapshots that may repeat an identifier or carry a null identifier
AnySnapshots ==
  { s \in UNION { [1..n -> AnyRecords] : n \in 0..MaxLen } :
      \A i \in 1..Len(s) : \A j \in 1..Len(s) :
          i < j => s[i].parcel_id <= s[j].parcel_id }

\* snapshots with unique identifiers in which a record may be malformed
BadSnapshots ==
  { s \in UNION { [1..n -> BadRecords] : n \in 0..MaxLen } :
      \A i \in 1..Len(s) : \A j \in 1..Len(s) :
          i < j => s[i].parcel_id < s[j].parcel_id }

\* well-formed snapshots whose records also differ in geometry
GeomSnapshots ==
  { s \in UNION { [1..n -> GeomRecords] : n \in 0..MaxLen } :
      \A i \in 1..Len(s) : \A j \in 1..Len(s) :
          i < j => s[i].parcel_id < s[j].parcel_id }

\* ------------------------------------------------------- pure functions
SeqIds(s) == { Str(s[i].parcel_id) : i \in 1..Len(s) }

\* A dict of hashes, and the table record_hashes, is a sequence of items
\* [parcel_id, hash_value] with distinct keys: a dict keeps its items in
\* insertion order, the table is read in rowid order.
HashRow(k, h) == [parcel_id |-> k, hash_value |-> h]
Keys(hashes) == { hashes[i].parcel_id : i \in 1..Len(hashes) }
\* hashes[k]
HashOf(hashes, k) ==
  LET i == CHOOSE n \in 1..Len(hashes) : hashes[n].parcel_id = k
  IN hashes[i].hash_value

\* the digest of a record with the geometry column included
calculate_hash_with_geometry(record) ==
  <<"attr", record.attr, "geometry", record.geometry,
    "parcel_id", record.parcel_id>>

\* calculate_hash: drop 'geometry', join "key:value" in sorted key order,
\* digest (the MD5 digest is taken as injective on the joined text)
calculate_hash(record) ==
  LET record_copy == [k \in (DOMAIN record) \ {"geometry"} |-> record[k]]
  IN <<"attr", record_copy.attr, "parcel_id", record_copy.parcel_id>>

\* calculate_hash raises for this record
HashFails(record) == record.attr = Malformed

\* new_hashes[parcel_id] = record_hash: a key stands where its first row
\* put it, a later row of the same key overwrites the value
NewHashes(df) ==
  LET firsts == SelectSeq([i \in 1..Len(df) |-> i],
                          LAMBDA i : \A j \in 1..(i - 1) :
                             Str(df[j].parcel_id) # Str(df[i].parcel_id))
  IN [n \in 1..Len(firsts) |->
        LET k == Str(df[firsts[n]].parcel_id)
            last == CHOOSE i \in 1..Len(df) :
                      /\ Str(df[i].parcel_id) = k
                      /\ \A j \in 1..Len(df) :
                           Str(df[j].parcel_id) = k => j <= i
        IN HashRow(k, calculate_hash(df[last]))]

\* an added test that holds back while no hash has been stored yet
IsAddedAfterFirstRun(r, current) ==
  /\ current # << >>
  /\ Str(r.parcel_id) \notin Keys(current)
IsAdded(r, current) == Str(r.parcel_id) \notin Keys(current)
\* an update test that forgets to compare the hashes
IsUpdatedAnyHash(r, current) == Str(r.parcel_id) \in Keys(current)
IsUpdated(r, current) ==
  /\ Str(r.parcel_id) \in Keys(current)
  /\ HashOf(current, Str(r.parcel_id)) # calculate_hash(r)
IsUnchanged(r, current) ==
  /\ Str(r.parcel_id) \in Keys(current)
  /\ HashOf(current, Str(r.parcel_id)) = calculate_hash(r)

AddedRecords(df, current) == SelectSeq(df, LAMBDA r : IsAdded(r, current))
UpdatedRecords(df, current) == SelectSeq(df, LAMBDA r : IsUpdated(r, current))
UnchangedRecords(df, current) ==
  SelectSeq(df, LAMBDA r : IsUnchanged(r, current))

\* the keys of a dict in the order of its items
KeyList(hashes) == [i \in 1..Len(hashes) |-> hashes[i].parcel_id]

\* a deletion list that treats an empty snapshot as nothing to do
DeletedRecordIdsUnlessEmpty(df, current) ==
  IF df = <<>> THEN <<>>
  ELSE KeyList(SelectSeq(current,
                         LAMBDA item : item.parcel_id \notin SeqIds(df)))
\* the entries identify_changes appends to self.change_log
RowLogEntries(df, current) ==
  LET changed == SelectSeq(df, LAMBDA r : ~IsUnchanged(r, current))
  IN [i \in 1..Len(changed) |->
        [action |-> IF IsAdded(changed[i], current) THEN "add" ELSE "update",
         parcel_id |-> Str(changed[i].parcel_id)]]

DeleteLogEntries(deleted) ==
  [i \in 1..Len(deleted) |-> [action |-> "delete", parcel_id |-> deleted[i]]]

Range(s) == { s[i] : i \in 1..Len(s) }

\* stats_df: the snapshot's rows without the geometry column
StatsRows(df) ==
  [i \in 1..Len(df) |-> [parcel_id |-> df[i].parcel_id, attr |-> df[i].attr]]

\* prepare_stats_data selects the columns id, use_code, acres and
\* assessed_value: the rows it returns have no parcel_id column, so the
\* rows appended to parcel_stats carry a NULL parcel_id
prepare_stats_data(rows) ==
  [i \in 1..Len(rows) |-> [parcel_id |-> Null, attr |-> rows[i].attr]]

\* a DELETE with the condition inverted: WHERE parcel_id NOT IN (ids)
SqlDeleteOthers(rows, ids) ==
  SelectSeq(rows, LAMBDA r : ~(r.parcel_id # Null /\ r.parcel_id \notin ids))
\* DELETE FROM parcel_stats WHERE parcel_id IN (ids): NULL matches nothing
SqlDelete(rows, ids) ==
  SelectSeq(rows, LAMBDA r : ~(r.parcel_id # Null /\ r.parcel_id \in ids))

\* existing_gdf[~existing_gdf['parcel_id'].astype(str).isin(ids)]
GeoRemove(rows, ids) ==
  SelectSeq(rows, LAMBDA r : Str(r.parcel_id) \notin ids)

\* A store is a file that holds one table (the layer of the GeoPackage,
\* parcel_stats of the stats database).  table tells what the file holds:
\* "none" (no table), "keyed" (a table with the columns of the snapshot,
\* parcel_id included) or "unkeyed" (a table with the columns that
\* prepare_stats_data selects only: no parcel_id column).
NoFile == [exists |-> FALSE, table |-> "none", rows |-> <<>>]
File(rows) == [exists |-> TRUE, table |-> "keyed", rows |-> rows]
\* the file sqlite3.connect creates, before to_sql has created the table
EmptyFile == [exists |-> TRUE, table |-> "none", rows |-> <<>>]
\* parcel_stats created by to_sql(if_exists='append') of prepared rows
Unkeyed(rows) == [exists |-> TRUE, table |-> "unkeyed", rows |-> rows]

\* the keys of the dict run_delta_sync returns at its end, and of the
\* dict it returns when initialize_working_db fails
ReportKeys == {"success", "geo_db_path", "stats_db_path", "working_db_path",
               "change_log_path", "added_records", "updated_records",
               "unchanged_records", "deleted_records", "elapsed_time"}
FailureKeys == {"success", "error"}

\* no dict returned (yet): keys is empty, the counts are placeholders
NoReport == [outcome |-> "none", keys |-> {}, added_records |-> 0,
             updated_records |-> 0, unchanged_records |-> 0,
             deleted_records |-> 0]

\* the dict returned at the end of run_delta_sync, lines 525-536
SuccessReport(a, u, n, d) ==
  [outcome |-> "success", keys |-> ReportKeys, added_records |-> Len(a),
   updated_records |-> Len(u), unchanged_records |-> Len(n),
   deleted_records |-> Len(d)]

\* the dict returned when initialize_working_db fails, lines 494-499
FailureReport == [NoReport EXCEPT !.outcome = "failure", !.keys = FailureKeys]
\* no dict is returned: an exception leaves run_delta_sync
Raised == [NoReport EXCEPT !.outcome = "raised"]
EmptyHashes == <<>>

\* ----------------------------------------------------------------- state
VARIABLES
  statsCols,       \* df has the columns prepare_stats_data selects
  clock,           \* wall clock in seconds (get_timestamp)
  tables,          \* record_hashes and sync_metadata exist in working_db
  record_hashes,   \* table record_hashes: its rows in rowid order
  sync_metadata,   \* table sync_metadata: one row per INSERT
  geo_db,          \* the GeoPackage file
  stats_db,        \* the stats database file (table parcel_stats)
  geo_backups,     \* files geo_db_path.backup_<timestamp>
  stats_backups,   \* files stats_db_path.backup_<timestamp>
  stats_locked,    \* the lock of the stats database that a connection
                   \* holds which a run that raised left open
  change_log,      \* self.change_log
  log_files,       \* files logs/delta_changes_<timestamp>.json
  pc,              \* position inside run_delta_sync
  df,              \* the snapshot of the current run
  prev_df,         \* the snapshot of the run before it
  prior_hashes,    \* record_hashes as identify_changes found it
  current_hashes,  \* identify_changes: the dict of the loaded hashes
  added, updated, unchanged, deleted_ids,
  prev_changes,    \* the loaded hashes and the four lists of the run, or
                   \* the call of identify_changes, before the current one
  fallback,        \* stores that took the backup-and-rewrite path this run
  created,         \* stores that did not exist and were created this run
  prev_outcome,    \* how the run before the current one ended
  report,          \* what the last run_delta_sync returned
  crashed_at,      \* the step at which the run this run retries was killed
  runs,            \* runs started
  faults,          \* faults injected so far
  injected         \* the faults injected into the current run

vars == <<statsCols, clock, tables, record_hashes, sync_metadata, geo_db,
          stats_db, geo_backups, stats_backups, stats_locked, change_log,
          log_files, pc,
          df, prev_df, prior_hashes, current_hashes, added, updated,
          unchanged, deleted_ids, prev_changes, fallback, created,
          prev_outcome, report, crashed_at, runs, faults, injected>>

persistent == <<tables, record_hashes, sync_metadata, geo_db, stats_db,
                geo_backups, stats_backups, log_files>>
stores == <<geo_db, stats_db, geo_backups, stats_backups>>
locals == <<df, prev_df, prior_hashes, current_hashes, added, updated,
            unchanged, deleted_ids, prev_changes>>

\* what a call of identify_changes loaded and returned
Changes(current, a, u, n, d) ==
  [current_hashes |-> current, added |-> a, updated |-> u, unchanged |-> n,
   deleted_ids |-> d]
\* no call of identify_changes yet
NoChanges == Changes(EmptyHashes, <<>>, <<>>, <<>>, <<>>)

Init ==
  /\ statsCols \in BOOLEAN
  /\ clock = 0
  /\ tables = FALSE
  /\ record_hashes = EmptyHashes
  /\ sync_metadata = <<>>
  /\ geo_db = NoFile
  /\ stats_db = NoFile
  /\ geo_backups = [t \in {} |-> <<>>]
  /\ stats_backups = [t \in {} |-> <<>>]
  /\ stats_locked = "none"
  /\ change_log = <<>>
  /\ log_files = [t \in {} |-> <<>>]
  /\ pc = "idle"
  /\ df = <<>>
  /\ prev_df = <<>>
  /\ prior_hashes = EmptyHashes
  /\ current_hashes = EmptyHashes
  /\ added = <<>>
  /\ updated = <<>>
  /\ unchanged = <<>>
  /\ deleted_ids = <<>>
  /\ prev_changes = NoChanges
  /\ fallback = {}
  /\ created = {}
  /\ prev_outcome = "none"
  /\ report = NoReport
  /\ crashed_at = "none"
  /\ runs = 0
  /\ faults = 0
  /\ injected = {}

\* a fault may be injected while the budget lasts; faults counts the steps
\* into which one was injected
Fault(f) == f => faults < MaxFaults
Inject(f, name) ==
  /\ faults' = IF f THEN faults + 1 ELSE faults
  /\ injected' = IF f THEN injected \cup {name} ELSE injected

\* how a function of the working database fails: "error" (a statement
\* after sqlite3.connect raises sqlite3.Error: the except clause handles
\* it) or "connect" (sqlite3.connect itself raises: the except clause runs,
\* then 'finally: if conn:' reads the unassigned conn and UnboundLocalError
\* leaves the function and run_delta_sync)
DbFaults == {"none", "error", "connect"}

\* --------------------------------------------------------------- actions
\* the clock advances, between runs or inside one: every file name reads
\* the clock anew (get_timestamp at lines 332, 398 and 467)
Tick ==
  /\ clock < MaxClock
  /\ clock' = clock + 1
  /\ UNCHANGED <<statsCols, persistent, stats_locked, change_log, pc, locals,
                 fallback, created, prev_outcome, report, crashed_at, runs,
                 faults, injected>>

\* the locks a leaked connection holds on the stats database: "reserved"
\* (its DELETE is pending: other connections read, none writes) or
\* "pending" (its COMMIT failed with SQLITE_BUSY: other connections neither
\* read nor write)
Locks == {"none", "reserved", "pending"}

\* the interpreter frees the connection that update_stats_db left open when
\* an exception left it (no close on that path): the uncommitted DELETE is
\* rolled back and the lock released.  When this happens is up to the
\* garbage collector.
CloseLeakedConnection ==
  /\ stats_locked # "none"
  /\ stats_locked' = "none"
  /\ UNCHANGED <<statsCols, clock, persistent, change_log, pc, locals,
                 fallback, created, prev_outcome, report, crashed_at, runs,
                 faults, injected>>

\* run_delta_sync is called with snapshot s; initialize_working_db.  When
\* it fails at a statement it returns False and the run returns the failure
\* dict; when sqlite3.connect itself fails, the finally clause reads the
\* unassigned conn and UnboundLocalError leaves run_delta_sync.
RunDeltaSync(s, fail) ==
  /\ pc = "idle"
  /\ runs < MaxRuns
  /\ Fault(fail # "none")
  /\ faults' = IF fail # "none" THEN faults + 1 ELSE faults
  /\ injected' = IF fail # "none" THEN {"init"} ELSE {}
  /\ runs' = runs + 1
  /\ crashed_at' = IF report.outcome = "crashed" /\ s = df
                     THEN crashed_at ELSE "none"
  /\ df' = s
  /\ prev_df' = df
  /\ prev_changes' = Changes(current_hashes, added, updated, unchanged,
                             deleted_ids)
  /\ prior_hashes' = EmptyHashes
  /\ current_hashes' = EmptyHashes
  /\ added' = <<>>
  /\ updated' = <<>>
  /\ unchanged' = <<>>
  /\ deleted_ids' = <<>>
  /\ fallback' = {}
  /\ created' = {}
  /\ prev_outcome' = report.outcome
  /\ CASE fail = "none" -> /\ pc' = "identify"
                           /\ report' = NoReport
                           /\ tables' = TRUE
       [] fail = "error" -> /\ pc' = "idle"
                            /\ report' = FailureReport
                            /\ UNCHANGED tables
       [] fail = "connect" -> /\ pc' = "idle"
                              /\ report' = Raised
                              /\ UNCHANGED tables
  /\ UNCHANGED <<statsCols, clock, record_hashes, sync_metadata, stores,
                 stats_locked, change_log, log_files>>

\* a deletion list that leaves out the identifiers whose deletion
\* self.change_log already holds
DeletedRecordIdsNotYetLogged(snapshot, current) ==
  KeyList(SelectSeq(current,
                    LAMBDA item :
                      /\ item.parcel_id \notin SeqIds(snapshot)
                      /\ \A i \in 1..Len(change_log) :
                            change_log[i] # [action |-> "delete",
                                             parcel_id |-> item.parcel_id]))
\* the keys of current_hashes that are not in new_hashes, in the order of
\* current_hashes (the rowid order of the SELECT)
DeletedRecordIds(snapshot, current) ==
  KeyList(SelectSeq(current,
                    LAMBDA item :
                      item.parcel_id \notin Keys(NewHashes(snapshot))))

\* get_current_record_hashes: the dict it returns.  A read that fails
\* after the connect is caught and yields {}
get_current_record_hashes(fail) ==
  IF fail = "error" \/ ~tables THEN EmptyHashes ELSE record_hashes
\* get_current_record_hashes returns nothing: the connect failed and the
\* finally clause raised
LoadRaises(fail) == fail = "connect"

\* the table after INSERT OR REPLACE of every item of new_hashes, in the
\* order of the dict: a replaced row is deleted and a new row, with a new
\* rowid, is put at the end
Upsert(table, new_hashes) ==
  SelectSeq(table, LAMBDA row : row.parcel_id \notin Keys(new_hashes))
    \o new_hashes

\* update_record_hashes(new_hashes): the table afterwards.  A failed
\* statement (an injected one, or the INSERT into a table that does not
\* exist) rolls the save back and the function returns False.
update_record_hashes(new_hashes, fail) ==
  IF fail # "none" \/ ~tables THEN record_hashes
  ELSE Upsert(record_hashes, new_hashes)

\* record_sync_metadata(record_count, added, updated, deleted): the table
\* afterwards.  A failed INSERT returns False.
record_sync_metadata(record_count, a, u, d, fail) ==
  IF fail # "none" \/ ~tables THEN sync_metadata
  ELSE Append(sync_metadata,
              [record_count |-> record_count, added_records |-> a,
               updated_records |-> u, deleted_records |-> d])

\* the faults injected into one call of identify_changes
IdentifyFaults(load, save, meta) ==
  (IF load # "none" THEN {"load"} ELSE {})
    \cup (IF save # "none" THEN {"save"} ELSE {})
    \cup (IF meta # "none" THEN {"metadata"} ELSE {})

\* identify_changes(s), lines 247-318: load the hashes, classify and log
\* every row, list and log the deleted identifiers, save the hashes
\* (update_record_hashes, line 303), record the metadata
\* (record_sync_metadata, lines 306-311), return the four lists; then the
\* caller is at next.  identify_changes looks at the result of neither
\* call.  An exception leaves identify_changes and its caller:
\* UnboundLocalError of a finally clause when a sqlite3.connect fails
\* (load, save or meta = "connect"), or the exception of calculate_hash,
\* which is called for each row in turn with no handler around it (the
\* rows before that row have been logged by then, nothing is saved).
identify_changes(s, load, save, meta, next) ==
  LET current == get_current_record_hashes(load)
      deleted == DeletedRecordIds(s, current)
      failing == { i \in 1..Len(s) : HashFails(s[i]) }
      first == CHOOSE i \in failing : \A j \in failing : i <= j
  IN /\ prior_hashes' = record_hashes
     \* update_record_hashes executes a statement only for an item of
     \* new_hashes
     /\ save = "error" => s # <<>>
     /\ IF LoadRaises(load)
          THEN /\ save = "none" /\ meta = "none"
               /\ pc' = "idle"
               /\ report' = Raised
               /\ UNCHANGED <<current_hashes, change_log, added, updated,
                              unchanged, deleted_ids, record_hashes,
                              sync_metadata>>
          ELSE IF failing # {}
          THEN /\ save = "none" /\ meta = "none"
               /\ current_hashes' = current
               /\ change_log' =
                    change_log
                      \o RowLogEntries(SubSeq(s, 1, first - 1), current)
               /\ pc' = "idle"
               /\ report' = Raised
               /\ UNCHANGED <<added, updated, unchanged, deleted_ids,
                              record_hashes, sync_metadata>>
          ELSE /\ current_hashes' = current
               /\ added' = AddedRecords(s, current)
               /\ updated' = UpdatedRecords(s, current)
               /\ unchanged' = UnchangedRecords(s, current)
               /\ deleted_ids' = deleted
               /\ change_log' = change_log \o RowLogEntries(s, current)
                                           \o DeleteLogEntries(deleted)
               /\ record_hashes' = update_record_hashes(NewHashes(s), save)
               /\ IF save = "connect"
                    THEN /\ meta = "none"
                         /\ pc' = "idle"
                         /\ report' = Raised
                         /\ UNCHANGED sync_metadata
                    ELSE /\ sync_metadata' =
                              record_sync_metadata(
                                Len(s), Len(AddedRecords(s, current)),
                                Len(UpdatedRecords(s, current)),
                                Len(deleted), meta)
                         /\ pc' = IF meta = "connect" THEN "idle" ELSE next
                         /\ report' = IF meta = "connect" THEN Raised
                                      ELSE report

\* run_delta_sync calls identify_changes(df), line 502
IdentifyChanges(load, save, meta) ==
  /\ pc = "identify"
  /\ faults + Cardinality(IdentifyFaults(load, save, meta)) <= MaxFaults
  /\ faults' = faults + Cardinality(IdentifyFaults(load, save, meta))
  /\ injected' = injected \cup IdentifyFaults(load, save, meta)
  /\ identify_changes(df, load, save, meta, "geo")
  /\ UNCHANGED <<statsCols, clock, tables, stores, stats_locked, log_files,
                 df, prev_df, prev_changes, fallback, created,
                 prev_outcome, crashed_at, runs>>

\* a caller other than run_delta_sync calls identify_changes(s) of the
\* DeltaSync instance; save is how its update_record_hashes fails
CallIdentifyChanges(s, save) ==
  /\ pc = "idle"
  /\ runs < MaxRuns
  /\ Fault(save # "none")
  /\ faults' = IF save # "none" THEN faults + 1 ELSE faults
  /\ injected' = IF save # "none" THEN {"save"} ELSE {}
  /\ runs' = runs + 1
  /\ df' = s
  /\ prev_df' = df
  /\ prev_changes' = Changes(current_hashes, added, updated, unchanged,
                             deleted_ids)
  /\ identify_changes(s, "none", save, "none", "idle")
  /\ UNCHANGED <<statsCols, clock, tables, stores, stats_locked, log_files,
                 fallback, created, prev_outcome, crashed_at>>

\* an incremental update that rewrites the rows from the snapshot
GeoReconciledFromSnapshot(existing, add, upd, del) == df
\* the GeoPackage after the incremental update, lines 361-392
GeoReconciled(existing, add, upd, del) ==
  LET kept == GeoRemove(existing, Range(del))
      withAdded == kept \o add
  IN IF upd = <<>> THEN withAdded
     ELSE GeoRemove(withAdded, SeqIds(upd)) \o upd

\* a bootstrap that writes the added rows only
GeoBootstrapFromAdded(gdf, add) == File(add)
\* the GeoPackage created when none exists: gdf.to_file, lines 354-357
GeoBootstrap(gdf, add) == File(gdf)

\* the files of a directory after a file stamped with the clock is written
\* or renamed to (a file of the same second is replaced)
Stamped(files, content) ==
  [t \in (DOMAIN files) \cup {clock} |->
     IF t = clock THEN content ELSE files[t]]

\* what fails in update_geo_db before the except branch: "read"
\* (read_file, or any statement before to_file, raises) or "write"
\* (to_file raises, at line 356 or 392)
GeoFaults == {"none", "read", "write"}
\* the file a failed or interrupted write leaves behind: "old" (the file
\* as it was), "new" (the rows, or the table, were written before the
\* error) or "gone" (the old file was removed and nothing written)
WriteLeaves == {"old", "new", "gone"}
\* what fails in the except branch of update_geo_db: "rename" (os.rename
\* raises), "rewrite" (gdf.to_file of line 403 raises and leaves no file),
\* "rewritten" (it raises after it wrote the rows)
GeoFallbackFaults == {"none", "rename", "rewrite", "rewritten"}

\* update_geo_db.  The bootstrap (lines 354-357) is outside the try: when
\* its to_file raises, the exception leaves run_delta_sync.  An exception
\* inside the try (lines 359-394) leads to the except branch: the file that
\* is there is renamed to a backup and gdf is written; an exception of
\* os.rename or of that to_file leaves run_delta_sync.
UpdateGeoDb(fault, left, then) ==
  /\ pc = "geo"
  /\ (fault # "none" \/ then # "none") => faults < MaxFaults
  /\ fault = "none" => (left = "old" /\ then = "none")
  /\ fault = "read" => (geo_db.exists /\ left = "old")
  /\ (fault = "write" /\ ~geo_db.exists) => (left # "old" /\ then = "none")
  /\ faults' = IF fault # "none" THEN faults + 1 ELSE faults
  /\ injected' = injected \cup ({fault, then} \ {"none"})
  /\ LET reconciled == GeoReconciled(geo_db.rows, added, updated, deleted_ids)
         \* the file when the except branch is entered
         atExcept == CASE left = "old" -> geo_db
                       [] left = "new" -> File(reconciled)
                       [] left = "gone" -> NoFile
         renamed == IF atExcept.exists
                      THEN Stamped(geo_backups, atExcept.rows)
                      ELSE geo_backups
     IN IF ~geo_db.exists
          THEN IF fault = "none"
                 THEN /\ geo_db' = GeoBootstrap(df, added)
                      /\ pc' = "stats"
                      /\ UNCHANGED <<geo_backups, fallback, report>>
                 ELSE /\ geo_db' = IF left = "new" THEN File(df) ELSE NoFile
                      /\ pc' = "idle"
                      /\ report' = Raised
                      /\ UNCHANGED <<geo_backups, fallback>>
          ELSE IF fault = "none"
          THEN /\ geo_db' = File(reconciled)
               /\ pc' = "stats"
               /\ UNCHANGED <<geo_backups, fallback, report>>
          ELSE IF then = "rename"
          THEN /\ atExcept.exists
               /\ geo_db' = atExcept
               /\ pc' = "idle"
               /\ report' = Raised
               /\ UNCHANGED <<geo_backups, fallback>>
          ELSE IF then \in {"rewrite", "rewritten"}
          THEN /\ geo_backups' = renamed
               /\ geo_db' = IF then = "rewritten" THEN File(df) ELSE NoFile
               /\ pc' = "idle"
               /\ report' = Raised
               /\ UNCHANGED fallback
          ELSE /\ geo_backups' = renamed
               /\ geo_db' = File(df)
               /\ fallback' = fallback \cup {"geo"}
               /\ pc' = "stats"
               /\ UNCHANGED report
  /\ created' = IF ~geo_db.exists /\ geo_db'.exists
                  THEN created \cup {"geo"} ELSE created
  /\ UNCHANGED <<statsCols, clock, tables, record_hashes, sync_metadata,
                 stats_db, stats_backups, stats_locked, change_log,
                 log_files, locals, prev_outcome, crashed_at, runs>>

\* parcel_stats after the DELETE of deleted_ids and the append of the
\* prepared added rows, lines 433-444
StatsReconciled(existing, add, del) ==
  LET afterDelete == SqlDelete(existing, Range(del))
  IN IF add # <<>> THEN afterDelete \o prepare_stats_data(add)
     ELSE afterDelete

\* the stats database after lines 433-444: to_sql(if_exists='append')
\* creates parcel_stats, with the prepared columns, when the file has none
StatsReconciledFile(file, add, del) ==
  IF file.table = "none" /\ add # <<>>
    THEN Unkeyed(prepare_stats_data(add))
    ELSE [file EXCEPT !.rows = StatsReconciled(file.rows, add, del)]

\* the statement at which the incremental update of the stats database
\* (lines 431-461) stops when no fault is injected: the DELETE raises
\* sqlite3.OperationalError when parcel_stats or its parcel_id column is
\* missing or another connection holds a lock; prepare_stats_data raises
\* KeyError when df lacks its columns; under a pending lock the SELECT
\* with which to_sql looks for the table fails ("table"), under a
\* reserved lock its INSERT; line 453 raises KeyError for any updated
\* record
StatsNatural ==
  CASE deleted_ids # <<>> /\ (stats_db.table # "keyed"
                                \/ stats_locked # "none")
         -> "delete"
    [] added # <<>> /\ ~statsCols -> "keyAdded"
    [] added # <<>> /\ stats_locked = "pending" -> "table"
    [] added # <<>> /\ stats_locked = "reserved" -> "insert"
    [] updated # <<>> -> "keyUpdated"
    [] OTHER -> "end"

\* the statement at which the incremental update stops when fault is
\* injected: the injected statement, if the run comes to it
StatsStop(fault) == IF fault = "none" THEN StatsNatural ELSE fault

\* the injected statement is one the run executes; the commit of line 460
\* executes COMMIT only when a transaction is open, which is when the
\* DELETE of deleted_ids ran and no to_sql committed it
StatsReached(fault) ==
  CASE fault = "none" -> TRUE
    [] fault = "connect" -> TRUE
    [] fault = "delete" -> deleted_ids # <<>>
    [] fault \in {"insert", "table"} ->
         /\ added # <<>>
         /\ StatsNatural \notin {"delete", "keyAdded"}
         /\ fault = "insert" => StatsNatural # "table"
    [] fault = "commit" ->
         /\ StatsNatural = "end"
         /\ deleted_ids # <<>>
         /\ added = <<>>

\* the stats database as committed when the update stops at statement
\* stop: to_sql commits the DELETE and the rows it appends, every other
\* change waits for the commit of line 460.  The CREATE TABLE of to_sql is
\* committed at once: when its INSERT fails in a file without table, the
\* table stays, without rows.
StatsCommitted(stop) ==
  IF added # <<>> /\ stop \in {"keyUpdated", "commit", "end"}
    THEN StatsReconciledFile(stats_db, added, deleted_ids)
    ELSE IF stop = "end"
    THEN StatsReconciledFile(stats_db, added, deleted_ids)
    ELSE IF stop = "insert" /\ stats_db.table = "none"
    THEN Unkeyed(<<>>)
    ELSE stats_db

\* what raises sqlite3.Error in update_stats_db: "connect", "delete"
\* (DELETE of deleted_ids), "insert" (the INSERT of to_sql, after its
\* CREATE TABLE) or "commit" (COMMIT fails with SQLITE_BUSY: another
\* connection reads the database).
\* "table": the statement with which to_sql looks for, or creates, the
\* table fails; pandas has rolled back and raises its own DatabaseError,
\* which is no sqlite3.Error.  In the bootstrap, lines 423-428, "connect",
\* "insert" and "table" are the only ones.
StatsFaults == {"none", "connect", "delete", "insert", "table", "commit"}
\* what fails in the except branch of update_stats_db: "rename"
\* (os.rename), "reopen" (sqlite3.connect of line 472), "create" (to_sql
\* of line 473, before its CREATE TABLE is done) or "rewrite" (to_sql of
\* line 473 at its INSERT, after CREATE TABLE)
StatsFallbackFaults == {"none", "rename", "reopen", "create", "rewrite"}

\* update_stats_db.  The bootstrap is outside the try: an exception in it
\* leaves run_delta_sync.  In the incremental update sqlite3.Error leads to
\* the except branch (backup and rewrite), whose own exceptions leave
\* run_delta_sync; any other exception (KeyError, DatabaseError) is not
\* caught and leaves run_delta_sync.  An exception that leaves
\* update_stats_db before line 472 leaves the connection of line 431 open:
\* with the reserved lock if its DELETE is pending, with the pending lock
\* if its COMMIT was refused.
UpdateStatsDb(fault, then) ==
  /\ pc = "stats"
  /\ (fault # "none" \/ then # "none") => faults < MaxFaults
  /\ ~stats_db.exists => (fault \in {"none", "connect", "insert", "table"}
                            /\ then = "none")
  /\ stats_db.exists => StatsReached(fault)
  \* to_sql executes its INSERT only when stats_df has a row
  /\ (~stats_db.exists /\ fault = "insert") => df # <<>>
  /\ then = "rewrite" => df # <<>>
  /\ faults' = IF fault # "none" \/ then # "none" THEN faults + 1 ELSE faults
  /\ injected' = injected \cup ({fault, then} \ {"none"})
  /\ LET stop == StatsStop(fault)
         committed == StatsCommitted(stop)
         pending == /\ deleted_ids # <<>>
                    /\ committed = stats_db
                    /\ stop # "table"
     IN IF ~stats_db.exists
          THEN IF fault = "none"
                 THEN /\ stats_db' = File(StatsRows(df))
                      /\ pc' = "log"
                      /\ UNCHANGED <<stats_backups, stats_locked, fallback,
                                     report>>
                 ELSE /\ stats_db' = CASE fault = "connect" -> NoFile
                                       [] fault = "table" -> EmptyFile
                                       [] OTHER -> File(<<>>)
                      /\ pc' = "idle"
                      /\ report' = Raised
                      /\ UNCHANGED <<stats_backups, stats_locked, fallback>>
          ELSE IF stop \in {"keyAdded", "keyUpdated", "table"}
          THEN /\ then = "none"
               /\ stats_db' = committed
               /\ stats_locked' = IF pending THEN "reserved"
                                  ELSE stats_locked
               /\ pc' = "idle"
               /\ report' = Raised
               /\ UNCHANGED <<stats_backups, fallback>>
          ELSE IF stop = "end"
          THEN /\ then = "none"
               /\ stats_db' = committed
               /\ pc' = "log"
               /\ UNCHANGED <<stats_backups, stats_locked, fallback, report>>
          ELSE IF then = "rename"
          THEN /\ stats_db' = committed
               /\ stats_locked' = IF stop = "commit" THEN "pending"
                                  ELSE stats_locked
               /\ pc' = "idle"
               /\ report' = Raised
               /\ UNCHANGED <<stats_backups, fallback>>
          ELSE IF then \in {"reopen", "create", "rewrite"}
          THEN /\ stats_backups' = Stamped(stats_backups, committed.rows)
               /\ stats_db' = CASE then = "reopen" -> NoFile
                                 [] then = "create" -> EmptyFile
                                 [] OTHER -> File(<<>>)
               /\ stats_locked' = "none"
               /\ pc' = "idle"
               /\ report' = Raised
               /\ UNCHANGED fallback
          ELSE /\ stats_backups' = Stamped(stats_backups, committed.rows)
               /\ stats_db' = File(StatsRows(df))
               /\ stats_locked' = "none"
               /\ fallback' = fallback \cup {"stats"}
               /\ pc' = "log"
               /\ UNCHANGED report
  /\ created' = IF ~stats_db.exists /\ stats_db'.exists
                  THEN created \cup {"stats"} ELSE created
  /\ UNCHANGED <<statsCols, clock, tables, record_hashes, sync_metadata,
                 geo_db, geo_backups, change_log, log_files, locals,
                 prev_outcome, crashed_at, runs>>

\* what fails in save_change_log: "makedirs" (os.makedirs of
\* ensure_directory_exists), "open" (to_json cannot open the file) or
\* "write" (to_json has opened the file and cannot write it)
LogFaults == {"none", "makedirs", "open", "write"}

\* save_change_log and the return of the report, lines 520-536.
\* save_change_log catches nothing and run_delta_sync calls it outside any
\* try: an exception in it leaves run_delta_sync, after the working
\* database and both stores were updated; self.change_log is kept.
SaveChangeLog(fail) ==
  /\ pc = "log"
  /\ Fault(fail # "none")
  /\ Inject(fail # "none", "log")
  /\ log_files' = CASE fail = "none" -> Stamped(log_files, change_log)
                     [] fail = "write" -> Stamped(log_files, <<>>)
                     [] OTHER -> log_files
  /\ report' = IF fail = "none"
                 THEN SuccessReport(added, updated, unchanged, deleted_ids)
                 ELSE Raised
  /\ pc' = "idle"
  /\ UNCHANGED <<statsCols, clock, tables, record_hashes, sync_metadata,
                 stores, stats_locked, change_log, locals, fallback,
                 created, prev_outcome, crashed_at, runs>>

\* where inside the step at pc the process is killed: "start" (before the
\* step changed anything), "write" (inside the write of the step; in
\* identify_changes after update_record_hashes has committed), "created"
\* (inside a to_sql that creates parcel_stats, after its CREATE TABLE and
\* before its INSERT), "renamed" (in the except branch of a store update,
\* after os.rename), "reopened" (there, after the new file was opened or
\* written) or "done" (after the step wrote and before it returned)
CrashPoints == {"start", "write", "created", "renamed", "reopened", "done"}

\* the process is killed inside a run; a new process has a new DeltaSync
\* and no open connection.  left is what the interrupted write of the
\* GeoPackage, the failed incremental update before the except branch, or
\* the to_sql that was creating parcel_stats, leaves behind.  The kill
\* finds the run in the except branch of a store update when the
\* incremental update raised: of itself (StatsNatural) or, if faulty,
\* because a statement of it failed.
Crash(point, left, faulty) ==
  /\ pc # "idle"
  /\ faults < MaxFaults
  /\ Inject(TRUE, "crash")
  /\ crashed_at' = IF pc = "identify" /\ point = "write" THEN "saved" ELSE pc
  /\ pc' = "idle"
  /\ change_log' = <<>>
  /\ stats_locked' = "none"
  /\ report' = [NoReport EXCEPT !.outcome = "crashed"]
  /\ LET reconciled == GeoReconciled(geo_db.rows, added, updated, deleted_ids)
         appended == StatsCommitted("commit")
         excepted == faulty \/ StatsNatural \in {"delete", "insert"}
     IN CASE point = "start" ->
               /\ left = "old"
               /\ UNCHANGED persistent
          [] point = "write" /\ pc = "identify" ->
               \* update_record_hashes of line 303 has committed,
               \* record_sync_metadata has not
               /\ left = "old"
               /\ \A i \in 1..Len(df) : ~HashFails(df[i])
               /\ record_hashes' = update_record_hashes(NewHashes(df), "none")
               /\ UNCHANGED <<tables, sync_metadata, stores, log_files>>
          [] point = "write" /\ pc = "geo" ->
               \* to_file of line 356 or 392 is interrupted
               /\ left # "old"
               /\ left = "gone" => geo_db.exists
               /\ geo_db' = IF left = "gone" THEN NoFile
                            ELSE IF geo_db.exists THEN File(reconciled)
                            ELSE File(df)
               /\ UNCHANGED <<tables, record_hashes, sync_metadata, stats_db,
                              geo_backups, stats_backups, log_files>>
          [] point = "write" /\ pc = "stats" ->
               \* bootstrap: after sqlite3.connect of line 425, before
               \* to_sql wrote; incremental: after to_sql of line 444
               /\ left = "old"
               /\ stats_db.exists =>
                    (StatsNatural \in {"keyUpdated", "end"}
                       /\ appended # stats_db)
               /\ stats_db' = IF stats_db.exists THEN appended ELSE EmptyFile
               /\ UNCHANGED <<tables, record_hashes, sync_metadata, geo_db,
                              geo_backups, stats_backups, log_files>>
          [] point = "created" /\ pc = "stats" /\ ~stats_db.exists ->
               \* bootstrap: to_sql of line 426 has created the table
               /\ left = "old"
               /\ stats_db' = File(<<>>)
               /\ UNCHANGED <<tables, record_hashes, sync_metadata, geo_db,
                              geo_backups, stats_backups, log_files>>
          [] point = "created" /\ pc = "stats" /\ stats_db.exists
               /\ left = "new" ->
               \* incremental: to_sql of line 444 has created the table
               \* in a file that had none
               /\ stats_db.table = "none"
               /\ added # <<>>
               /\ StatsNatural \in {"keyUpdated", "end"}
               /\ stats_db' = Unkeyed(<<>>)
               /\ UNCHANGED <<tables, record_hashes, sync_metadata, geo_db,
                              geo_backups, stats_backups, log_files>>
          [] point = "created" /\ pc = "stats" /\ stats_db.exists
               /\ left = "old" ->
               \* except branch: rename and connect done, to_sql of line
               \* 473 has created the table
               /\ excepted
               /\ stats_backups' = Stamped(stats_backups, stats_db.rows)
               /\ stats_db' = File(<<>>)
               /\ UNCHANGED <<tables, record_hashes, sync_metadata, geo_db,
                              geo_backups, log_files>>
          [] point = "write" /\ pc = "log" ->
               \* to_json has opened the file and written nothing
               /\ left = "old"
               /\ log_files' = Stamped(log_files, <<>>)
               /\ UNCHANGED <<tables, record_hashes, sync_metadata, stores>>
          [] point = "done" /\ pc = "log" ->
               \* save_change_log has returned, run_delta_sync has not
               /\ left = "old"
               /\ log_files' = Stamped(log_files, change_log)
               /\ UNCHANGED <<tables, record_hashes, sync_metadata, stores>>
          [] point \in {"renamed", "reopened"} /\ pc = "geo" ->
               \* the incremental update raised and left the file as it
               \* was, rewritten or removed; the file that was there is
               \* renamed; "reopened": gdf is written
               /\ faulty
               /\ geo_db.exists
               /\ left = "gone" => point = "reopened"
               /\ geo_backups' =
                    CASE left = "old" -> Stamped(geo_backups, geo_db.rows)
                      [] left = "new" -> Stamped(geo_backups, reconciled)
                      [] left = "gone" -> geo_backups
               /\ geo_db' = IF point = "reopened" THEN File(df) ELSE NoFile
               /\ UNCHANGED <<tables, record_hashes, sync_metadata, stats_db,
                              stats_backups, log_files>>
          [] point \in {"renamed", "reopened"} /\ pc = "stats" ->
               \* the incremental update raised sqlite3.Error, which
               \* no statement does after a to_sql has committed; rename
               \* done; "reopened": the new file exists, without table
               /\ excepted
               /\ stats_db.exists
               /\ left = "old"
               /\ stats_backups' = Stamped(stats_backups, stats_db.rows)
               /\ stats_db' = IF point = "reopened" THEN EmptyFile ELSE NoFile
               /\ UNCHANGED <<tables, record_hashes, sync_metadata, geo_db,
                              geo_backups, log_files>>
          [] OTHER -> FALSE
  /\ UNCHANGED <<statsCols, clock, locals, fallback, created, prev_outcome,
                 runs>>

\* ---------------------------------------------------------- specifications
\* serialized runs on well-formed snapshots, no fault (the runs of a
\* behaviour fall into one second of the clock)
Next ==
  \/ \E s \in WellFormedSnapshots : RunDeltaSync(s, "none")
  \/ IdentifyChanges("none", "none", "none")
  \/ UpdateGeoDb("none", "old", "none")
  \/ UpdateStatsDb("none", "none")
  \/ CloseLeakedConnection
  \/ SaveChangeLog("none")

Spec == Init /\ [][Next]_vars

\* serialized runs on well-formed snapshots, with injected faults and
\* crashes
NextFault ==
  \/ Tick
  \/ \E s \in WellFormedSnapshots : \E f \in DbFaults : RunDeltaSync(s, f)
  \/ \E load \in DbFaults : \E save \in DbFaults : \E meta \in DbFaults :
        IdentifyChanges(load, save, meta)
  \/ \E f \in GeoFaults : \E left \in WriteLeaves :
        \E then \in GeoFallbackFaults : UpdateGeoDb(f, left, then)
  \/ \E f \in StatsFaults : \E then \in StatsFallbackFaults :
        UpdateStatsDb(f, then)
  \/ CloseLeakedConnection
  \/ \E f \in LogFaults : SaveChangeLog(f)
  \/ \E point \in CrashPoints : \E left \in WriteLeaves :
        Crash(point, left, TRUE)

SpecFault == Init /\ [][NextFault]_vars

\* serialized runs on any snapshot, also with repeated or null identifiers
NextAny ==
  \/ \E s \in AnySnapshots : RunDeltaSync(s, "none")
  \/ IdentifyChanges("none", "none", "none")
  \/ UpdateGeoDb("none", "old", "none")
  \/ UpdateStatsDb("none", "none")
  \/ CloseLeakedConnection
  \/ SaveChangeLog("none")

SpecAny == Init /\ [][NextAny]_vars

\* serialized runs on well-formed snapshots whose records also differ in
\* geometry
NextGeom ==
  \/ \E s \in GeomSnapshots : RunDeltaSync(s, "none")
  \/ IdentifyChanges("none", "none", "none")
  \/ UpdateGeoDb("none", "old", "none")
  \/ UpdateStatsDb("none", "none")
  \/ CloseLeakedConnection
  \/ SaveChangeLog("none")

SpecGeom == Init /\ [][NextGeom]_vars

\* between two runs the caller turns to a geo_db_path at which no file
\* exists (geo_db_path is an argument of each call of run_delta_sync)
NewGeoDbPath ==
  /\ pc = "idle"
  /\ geo_db.exists
  /\ geo_db' = NoFile
  /\ UNCHANGED <<statsCols, clock, tables, record_hashes, sync_metadata,
                 stats_db, geo_backups, stats_backups, stats_locked,
                 change_log, log_files, pc, locals, fallback, created,
                 prev_outcome, report, crashed_at, runs, faults, injected>>

\* serialized runs in which the GeoPackage may be missing when hashes exist
NextNewPath ==
  \/ \E s \in WellFormedSnapshots : RunDeltaSync(s, "none")
  \/ IdentifyChanges("none", "none", "none")
  \/ UpdateGeoDb("none", "old", "none")
  \/ UpdateStatsDb("none", "none")
  \/ CloseLeakedConnection
  \/ SaveChangeLog("none")
  \/ NewGeoDbPath

SpecNewPath == Init /\ [][NextNewPath]_vars

\* serialized runs on snapshots in which a record may be malformed
NextBad ==
  \/ \E s \in BadSnapshots : RunDeltaSync(s, "none")
  \/ IdentifyChanges("none", "none", "none")
  \/ UpdateGeoDb("none", "old", "none")
  \/ UpdateStatsDb("none", "none")
  \/ CloseLeakedConnection
  \/ SaveChangeLog("none")

SpecBad == Init /\ [][NextBad]_vars

\* the state a first run on s0 leaves behind when nothing fails
Synced(s0) ==
  /\ statsCols \in BOOLEAN
  /\ clock = 0
  /\ tables = TRUE
  /\ record_hashes = NewHashes(s0)
  /\ sync_metadata = <<[record_count |-> Len(s0), added_records |-> Len(s0),
                        updated_records |-> 0, deleted_records |-> 0]>>
  /\ geo_db = File(s0)
  /\ stats_db = File(StatsRows(s0))
  /\ geo_backups = [t \in {} |-> <<>>]
  /\ stats_backups = [t \in {} |-> <<>>]
  /\ stats_locked = "none"
  /\ change_log = RowLogEntries(s0, EmptyHashes)
  /\ log_files = [t \in {0} |-> RowLogEntries(s0, EmptyHashes)]
  /\ pc = "idle"
  /\ df = s0
  /\ prev_df = <<>>
  /\ prior_hashes = EmptyHashes
  /\ current_hashes = EmptyHashes
  /\ added = s0
  /\ updated = <<>>
  /\ unchanged = <<>>
  /\ deleted_ids = <<>>
  /\ prev_changes = NoChanges
  /\ fallback = {}
  /\ created = {"geo", "stats"}
  /\ prev_outcome = "none"
  /\ report = SuccessReport(s0, <<>>, <<>>, <<>>)
  /\ crashed_at = "none"
  /\ runs = 0
  /\ faults = 0
  /\ injected = {}

InitSynced == \E s0 \in WellFormedSnapshots : Synced(s0)

\* serialized runs after a first run, where the process may be killed
NextCrash ==
  \/ \E s \in WellFormedSnapshots : RunDeltaSync(s, "none")
  \/ IdentifyChanges("none", "none", "none")
  \/ UpdateGeoDb("none", "old", "none")
  \/ UpdateStatsDb("none", "none")
  \/ CloseLeakedConnection
  \/ SaveChangeLog("none")
  \/ \E point \in CrashPoints : \E left \in WriteLeaves :
        Crash(point, left, FALSE)

SpecCrash == InitSynced /\ [][NextCrash]_vars

\* the snapshots handed to identify_changes directly: the well-formed ones
\* of the parcels A and B
CallSnapshots == { s \in WellFormedSnapshots : SeqIds(s) \subseteq {1, 2} }

\* after a first run, callers of identify_changes hand it snapshots, one
\* call after the other; the save of a call may fail
NextDetect ==
  \E s \in CallSnapshots : \E save \in {"none", "error"} :
     CallIdentifyChanges(s, save)

SpecDetect == InitSynced /\ [][NextDetect]_vars

\* ------------------------------------------------------------ properties
TypeOK ==
  /\ pc \in {"idle", "identify", "geo", "stats", "log"}
  /\ stats_locked \in Locks
  /\ geo_db.table \in {"none", "keyed"}
  /\ stats_db.table \in {"none", "keyed", "unkeyed"}
  /\ runs \in 0..MaxRuns
  /\ faults \in 0..MaxFaults

\* identifier and attributes of every row of a store or of a snapshot
Content(rows) == { <<rows[i].parcel_id, rows[i].attr>> : i \in 1..Len(rows) }
RowIds(rows) == { rows[i].parcel_id : i \in 1..Len(rows) }

\* C1: after every run that returns success, the identifiers of the
\* GeoPackage and of the stats database are those of the run's snapshot and
\* every stored row carries the attributes of its snapshot record.
C1_StoreConvergence ==
  report.outcome = "success" =>
    /\ RowIds(geo_db.rows) = RowIds(df)
    /\ RowIds(stats_db.rows) = RowIds(df)
    /\ Content(geo_db.rows) = Content(df)
    /\ Content(stats_db.rows) = Content(df)

\* C2: after classification the identifiers of added, updated and unchanged
\* are pairwise disjoint, their union is the snapshot's identifier set, and
\* deleted_ids is the set of the keys record_hashes held that the snapshot
\* does not carry.
C2_Partition ==
  pc \in {"geo", "stats", "log"} =>
    /\ SeqIds(added) \cap SeqIds(updated) = {}
    /\ SeqIds(added) \cap SeqIds(unchanged) = {}
    /\ SeqIds(updated) \cap SeqIds(unchanged) = {}
    /\ SeqIds(added) \cup SeqIds(updated) \cup SeqIds(unchanged) = SeqIds(df)
    /\ Range(deleted_ids) = (Keys(prior_hashes)) \ SeqIds(df)
    /\ Len(deleted_ids) = Cardinality(Range(deleted_ids))

C2_Witness ==
  /\ pc = "geo"
  /\ added # <<>>
  /\ updated # <<>>
  /\ deleted_ids # <<>>
\* unique, non-null identifiers
IsWellFormed(s) ==
  /\ \A i \in 1..Len(s) : s[i].parcel_id # Null
  /\ \A i \in 1..Len(s) : \A j \in 1..Len(s) :
        i # j => s[i].parcel_id # s[j].parcel_id

\* C3: the step in which the read of a record_hashes table that holds
\* entries fails aborts the run: the run is not on its way any more, it
\* reports no success, no record is classified as added, and the step
\* leaves both stores and record_hashes as they were.
C3_UnreadableHashIndexFatal ==
  [][ ("load" \in injected' /\ "load" \notin injected
         /\ record_hashes # EmptyHashes) =>
        /\ pc' = "idle"
        /\ report'.outcome \in {"failure", "raised", "crashed"}
        /\ added' = <<>>
        /\ geo_db' = geo_db
        /\ stats_db' = stats_db
        /\ record_hashes' = record_hashes ]_vars

\* C4: a run whose snapshot repeats an identifier or carries a null
\* identifier never gets past the start of identify_changes, and no step of
\* it changes record_hashes, the GeoPackage or the stats database.
C4_MalformedSnapshotFatal ==
  [][ ~IsWellFormed(df') =>
        /\ pc' \in {"idle", "identify"}
        /\ report'.outcome # "success"
        /\ record_hashes' = record_hashes
        /\ geo_db' = geo_db
        /\ stats_db' = stats_db ]_vars

\* a step of update_geo_db / update_stats_db in which the incremental
\* update of the store that was there failed: the step took the except
\* branch to its end, or an exception left it
GeoFailedStep ==
  /\ pc = "geo"
  /\ geo_db.exists
  /\ "crash" \notin injected'
  /\ "geo" \in fallback' \/ report'.outcome = "raised"
StatsFailedStep ==
  /\ pc = "stats"
  /\ stats_db.exists
  /\ "crash" \notin injected'
  /\ "stats" \in fallback' \/ report'.outcome = "raised"

\* C5: whenever the incremental update of a store fails, the store holds the
\* rows of the full snapshot afterwards and a backup file holds the rows the
\* store had before the update.
C5_FallbackCorrectness ==
  [][ /\ GeoFailedStep =>
           /\ geo_db' = File(df)
           /\ \E t \in DOMAIN geo_backups' : geo_backups'[t] = geo_db.rows
      /\ StatsFailedStep =>
           /\ stats_db' = File(StatsRows(df))
           /\ \E t \in DOMAIN stats_backups' :
                  stats_backups'[t] = stats_db.rows ]_vars

\* C6: no failure of a store update leaves run_delta_sync as an exception.
C6_NoReconcileFailurePropagates == report.outcome # "raised"

\* the run under way, or just completed, repeats the snapshot of a run that
\* was killed after the save of the hashes and before the stats update ended
IsRetry ==
  /\ crashed_at \in {"saved", "geo", "stats"}
  /\ report.outcome # "crashed"

\* C7: the retry of a run killed between the save of the hashes and the end
\* of the store updates classifies every record as unchanged and, once it
\* has returned success, both stores hold exactly the snapshot's records.
C7_CrashRecovery ==
  /\ (IsRetry /\ pc \in {"geo", "stats", "log"}) =>
        (added = <<>> /\ updated = <<>> /\ unchanged = df)
  /\ (IsRetry /\ pc = "idle" /\ report.outcome = "success") =>
        /\ geo_db.rows = df
        /\ stats_db.rows = StatsRows(df)

\* C8: applying the change set of the run to an existing store a second
\* time gives the rows of the first application.
C8_ReconcileIdempotent ==
  /\ (pc = "geo" /\ geo_db.exists) =>
        LET once == GeoReconciled(geo_db.rows, added, updated, deleted_ids)
        IN GeoReconciled(once, added, updated, deleted_ids) = once
  /\ (pc = "stats" /\ stats_db.exists /\ updated = <<>>
        /\ (added = <<>> \/ statsCols)) =>
        LET once == StatsReconciled(stats_db.rows, added, deleted_ids)
        IN StatsReconciled(once, added, deleted_ids) = once

\* C9: with loaded hashes for A = 1 and B = 2 (both stores holding A and B)
\* and the snapshot [A with the hashed attributes, C = 3], the change set is
\* added {C}, updated {}, unchanged {A}, deleted [B], and after the run
\* both stores hold one row for A and one row for C and none for B.
C9_Scenario ==
  ( /\ pc = "idle"
    /\ report.outcome \in {"success", "raised"}
    /\ Keys(current_hashes) = {1, 2}
    /\ Len(df) = 2
    /\ df[1].parcel_id = 1
    /\ df[2].parcel_id = 3
    /\ HashOf(current_hashes, 1) = calculate_hash(df[1]) ) =>
      /\ SeqIds(added) = {3}
      /\ updated = <<>>
      /\ SeqIds(unchanged) = {1}
      /\ deleted_ids = <<2>>
      /\ Len(geo_db.rows) = 2
      /\ RowIds(geo_db.rows) = {1, 3}
      /\ Len(stats_db.rows) = 2
      /\ RowIds(stats_db.rows) = {1, 3}

\* C10: after a run that returned success, record_hashes has an entry for
\* exactly the identifiers of the run's snapshot.
C10_HashIndexExact ==
  report.outcome = "success" => Keys(record_hashes) = SeqIds(df)

\* C11: with stored hashes and an empty snapshot, added, updated and
\* unchanged are empty and deleted_ids lists every stored identifier once;
\* the run goes on and removes the rows of these identifiers from both
\* stores.
C11_EmptySnapshot ==
  /\ (pc \in {"geo", "stats", "log"} /\ df = <<>>
        /\ prior_hashes # EmptyHashes) =>
        /\ added = <<>>
        /\ updated = <<>>
        /\ unchanged = <<>>
        /\ Range(deleted_ids) = Keys(prior_hashes)
        /\ Len(deleted_ids) = Cardinality(Keys(prior_hashes))
  /\ (pc \in {"stats", "log"} /\ df = <<>>) =>
        RowIds(geo_db.rows) \cap Keys(current_hashes) = {}
  /\ (pc = "log" /\ df = <<>>) =>
        RowIds(stats_db.rows) \cap Keys(current_hashes) = {}

C11_Witness ==
  /\ pc = "log"
  /\ df = <<>>
  /\ Len(deleted_ids) = 2
  /\ Len(prev_df) = 2
  /\ geo_db = File(<<>>)
  /\ stats_db = File(<<>>)

\* C12: when no hash is stored, every record of the snapshot is classified
\* as added, and updated, unchanged and deleted_ids are empty.
C12_FirstRun ==
  (pc \in {"geo", "stats", "log"} /\ prior_hashes = EmptyHashes) =>
    /\ added = df
    /\ updated = <<>>
    /\ unchanged = <<>>
    /\ deleted_ids = <<>>

C12_Witness ==
  /\ pc = "geo"
  /\ prior_hashes = EmptyHashes
  /\ Len(added) = 2

\* C13: the change set is a function of the snapshot and the stored hashes:
\* a call of identify_changes that is handed the snapshot of the call before
\* it and loads the hashes that call loaded returns the added, updated,
\* unchanged and deleted_ids of that call, whatever the instance has logged
\* or saved meanwhile.
C13_ClassificationIdempotent ==
  (prev_df = df /\ prev_changes.current_hashes = current_hashes) =>
    /\ added = prev_changes.added
    /\ updated = prev_changes.updated
    /\ unchanged = prev_changes.unchanged
    /\ deleted_ids = prev_changes.deleted_ids

C13_Witness ==
  /\ runs = 2
  /\ faults = 1
  /\ prev_df = df
  /\ prev_changes.current_hashes = current_hashes
  /\ change_log # <<>>
  /\ added # <<>>
  /\ updated # <<>>
  /\ deleted_ids # <<>>
  /\ added = prev_changes.added
  /\ deleted_ids = prev_changes.deleted_ids

\* C14: a record that has the identifier and the scalar attributes of a
\* record of the previous run's snapshot is classified as unchanged,
\* whatever the geometries of the two records.
C14_IdenticalRecordsUnchanged ==
  (pc = "geo" /\ runs >= 2) =>
    \A i \in 1..Len(df) : \A j \in 1..Len(prev_df) :
      (df[i].parcel_id = prev_df[j].parcel_id /\ df[i].attr = prev_df[j].attr)
        => df[i] \in Range(unchanged)

C14_Witness ==
  /\ pc = "geo"
  /\ runs >= 2
  /\ \E i \in 1..Len(df) : \E j \in 1..Len(prev_df) :
        /\ df[i].parcel_id = prev_df[j].parcel_id
        /\ df[i].attr = prev_df[j].attr
        /\ df[i].geometry # prev_df[j].geometry
        /\ df[i] \in Range(unchanged)

\* C15: the steps of a run follow each other in the order initialize,
\* classify and save the hashes, update the GeoPackage, update the stats
\* database, record the sync metadata, save the change log, return; the
\* sync_metadata row is written after both store updates and before the
\* change log file.
C15_StepOrder ==
  [][ /\ pc' # pc =>
           <<pc, pc'>> \in { <<"idle", "identify">>, <<"identify", "geo">>,
                             <<"geo", "stats">>, <<"stats", "log">>,
                             <<"log", "idle">> }
      /\ sync_metadata' # sync_metadata => pc = "log" ]_vars

\* C16: in every run the hashes are saved once: record_hashes changes only
\* in the step that classifies the records, from the end of that step on it
\* holds the hash of every record of the snapshot, and no store or backup
\* changes before that.
C16_HashesSavedOnce ==
  /\ [](pc \in {"geo", "stats", "log"} =>
          \A i \in 1..Len(df) :
             /\ Str(df[i].parcel_id) \in Keys(record_hashes)
             /\ HashOf(record_hashes, Str(df[i].parcel_id))
                  = calculate_hash(df[i]))
  /\ [][ record_hashes' # record_hashes => pc = "identify" ]_vars
  /\ [][ (pc \in {"idle", "identify"}) => UNCHANGED stores ]_vars

\* C17: every dict that run_delta_sync returns has the store paths, the
\* change log path, the four counts and the elapsed time.
C17_ReportHasCounts ==
  report.keys # {} =>
    {"geo_db_path", "stats_db_path", "change_log_path", "added_records",
     "updated_records", "unchanged_records", "deleted_records",
     "elapsed_time"} \subseteq report.keys

\* C18: the dict returned by a successful run in which a store took the
\* backup-and-rewrite path differs from the dict the run returns when
\* nothing fails.
C18_FallbackVisible ==
  (report.outcome = "success" /\ fallback # {}) =>
    report # SuccessReport(added, updated, unchanged, deleted_ids)

\* the rows of a table whose parcel_id is one of ids
RowsOf(rows, ids) ==
  SelectSeq(rows, LAMBDA r : r.parcel_id # Null /\ Str(r.parcel_id) \in ids)

\* C19: an incremental update of the stats database (the file exists, no
\* backup-and-rewrite) leaves the rows of the identifiers classified as
\* unchanged as they were: none deleted, none inserted, none altered.
C19_UnchangedRowsUntouched ==
  [][ (pc = "stats" /\ stats_db.exists /\ fallback' = fallback) =>
        RowsOf(stats_db'.rows, SeqIds(unchanged))
          = RowsOf(stats_db.rows, SeqIds(unchanged)) ]_vars

C19_Witness ==
  /\ pc = "log"
  /\ runs = 2
  /\ added # <<>>
  /\ deleted_ids # <<>>
  /\ RowsOf(stats_db.rows, SeqIds(unchanged)) # <<>>

\* C20: the outcome of one store update does not decide whether the other
\* store is updated, and each update writes its own store only: a run that
\* has come to update_geo_db goes on to update_stats_db whatever happens to
\* the GeoPackage, and neither step changes the other store or its backups.
C20_ReconcilersIndependent ==
  [][ /\ (pc = "geo" /\ pc' # pc /\ "crash" \notin injected') =>
           /\ pc' = "stats"
           /\ UNCHANGED <<stats_db, stats_backups>>
      /\ (pc = "stats" /\ pc' # pc /\ "crash" \notin injected') =>
           UNCHANGED <<geo_db, geo_backups>> ]_vars

\* C21: the change log file written by a run holds one entry for each record
\* this run classified as added or updated and one for each deleted
\* identifier, with the matching action, and nothing else: no entry for an
\* unchanged record and no entry of an earlier run.
C21_ChangeLogRunScoped ==
  report.outcome = "success" =>
    /\ clock \in DOMAIN log_files
    /\ log_files[clock] = RowLogEntries(df, current_hashes)
                            \o DeleteLogEntries(deleted_ids)

\* C22: a run that returned success has appended a sync_metadata row, which
\* is the last one, with the size of the snapshot and the sizes of added,
\* updated and deleted_ids; no step appends more than one row, and the
\* rows written before stay as they are.
C22_OneMetadataRowPerRun ==
  /\ [](report.outcome = "success" =>
          /\ sync_metadata # <<>>
          /\ sync_metadata[Len(sync_metadata)] =
               [record_count |-> Len(df), added_records |-> Len(added),
                updated_records |-> Len(updated),
                deleted_records |-> Len(deleted_ids)])
  /\ [][ /\ Len(sync_metadata') \in {Len(sync_metadata),
                                     Len(sync_metadata) + 1}
         /\ SubSeq(sync_metadata', 1, Len(sync_metadata)) = sync_metadata
     ]_vars

\* no two rows of a store carry the same parcel_id
UniqueIds(rows) ==
  \A i \in 1..Len(rows) : \A j \in 1..Len(rows) :
     (i # j /\ rows[i].parcel_id # Null) =>
        rows[i].parcel_id # rows[j].parcel_id

\* C23: between runs, whatever failed in the runs so far, neither the
\* GeoPackage nor the stats database holds two rows with the same
\* identifier.
C23_StoresKeyedById ==
  pc = "idle" => (UniqueIds(geo_db.rows) /\ UniqueIds(stats_db.rows))

\* C24: a record whose hash cannot be computed is left out of added,
\* updated and unchanged, every other record of the snapshot is classified,
\* and the run goes on.
C24_ClassificationErrorPerRecord ==
  [][ (pc = "identify" /\ pc' # pc) =>
        /\ pc' = "geo"
        /\ SeqIds(added') \cup SeqIds(updated') \cup SeqIds(unchanged')
             = SeqIds(SelectSeq(df, LAMBDA r : ~HashFails(r))) ]_vars

\* C25 as stated: when no GeoPackage exists at the start of update_geo_db,
\* the file it creates holds the added records and no other.
C25_BootstrapFromAdded ==
  [][ (pc = "geo" /\ pc' # pc /\ ~geo_db.exists) =>
        (geo_db'.exists /\ geo_db'.rows = added) ]_vars

\* C25 amended: when no GeoPackage exists at the start of update_geo_db, the
\* file it creates holds every record of the snapshot, the unchanged and
\* updated ones included, and no backup is made.
C25_BootstrapFromSnapshot ==
  [][ (pc = "geo" /\ pc' # pc /\ ~geo_db.exists) =>
        /\ geo_db'.exists
        /\ geo_db'.rows = df
        /\ pc' = "stats"
        /\ UNCHANGED geo_backups ]_vars

C25_Witness ==
  /\ pc = "stats"
  /\ "geo" \in created
  /\ unchanged # <<>>
  /\ added # <<>>
  /\ geo_db.rows = df

\* C26: a record that differs from the previous run's record of the same
\* identifier in its geometry only is not classified as updated, and the
\* update of the existing GeoPackage leaves the rows of the identifiers
\* classified as unchanged as they were, old geometry included.
C26_GeometryEditInvisible ==
  /\ []((pc = "geo" /\ runs >= 2) =>
          \A i \in 1..Len(df) : \A j \in 1..Len(prev_df) :
             ( /\ df[i].parcel_id = prev_df[j].parcel_id
               /\ df[i].attr = prev_df[j].attr
               /\ df[i].geometry # prev_df[j].geometry )
               => df[i] \notin Range(updated))
  /\ [][ (pc = "geo" /\ geo_db.exists) =>
           RowsOf(geo_db'.rows, SeqIds(unchanged))
             = RowsOf(geo_db.rows, SeqIds(unchanged)) ]_vars

C26_Witness ==
  /\ pc = "stats"
  /\ runs >= 2
  /\ \E i \in 1..Len(df) : \E j \in 1..Len(prev_df) :
        \E k \in 1..Len(geo_db.rows) :
          /\ df[i].parcel_id = prev_df[j].parcel_id
          /\ df[i].attr = prev_df[j].attr
          /\ df[i].geometry # prev_df[j].geometry
          /\ df[i] \in Range(unchanged)
          /\ geo_db.rows[k] = prev_df[j]

\* C27: every run writes a change log file of its own: the run's save adds
\* a file, and no step changes or removes a file written before.
C27_OneLogFilePerRun ==
  [][ /\ \A t \in DOMAIN log_files :
            t \in DOMAIN log_files' /\ log_files'[t] = log_files[t]
      /\ (pc = "log" /\ pc' = "idle") =>
            DOMAIN log_files' # DOMAIN log_files ]_vars

\* C28: a run on the snapshot of the run before it, which returned success,
\* reports no added, updated or deleted record, classifies every record as
\* unchanged, and none of its steps (a kill of the process is not one)
\* changes the GeoPackage or the stats database.
C28_RepeatRunStable ==
  /\ []((report.outcome = "success" /\ prev_outcome = "success"
           /\ prev_df = df) =>
          /\ report.added_records = 0
          /\ report.updated_records = 0
          /\ report.deleted_records = 0
          /\ unchanged = df)
  /\ [][ (pc # "idle" /\ prev_outcome = "success" /\ prev_df = df
            /\ "crash" \notin injected') =>
           UNCHANGED <<geo_db, stats_db>> ]_vars

\* C29: after a run that returned success, record_hashes maps the
\* identifier of every record of the snapshot to the hash of that record;
\* a run in which update_record_hashes failed does not return success.
C29_SuccessImpliesHashesSaved ==
  /\ report.outcome = "success" =>
        \A i \in 1..Len(df) :
           /\ Str(df[i].parcel_id) \in Keys(record_hashes)
           /\ HashOf(record_hashes, Str(df[i].parcel_id))
                = calculate_hash(df[i])
  /\ (pc = "idle" /\ "save" \in injected) => report.outcome # "success"

\* C30: a run whose initialize_working_db fails returns the failure dict,
\* classifies nothing, and leaves record_hashes, sync_metadata, the change
\* log, the change log files and both stores as they were.
C30_InitFailureCleanAbort ==
  [][ ("init" \in injected' /\ runs' = runs + 1) =>
        /\ report' = FailureReport
        /\ pc' = "idle"
        /\ added' = <<>> /\ updated' = <<>> /\ unchanged' = <<>>
        /\ deleted_ids' = <<>>
        /\ UNCHANGED <<record_hashes, sync_metadata, change_log, log_files,
                       stores>> ]_vars
====
